---- MODULE Spec2Model ----
(***************************************************************************)
(* Model of src/task2.py: most_recent_flights_csv(csv_path, on_missing).   *)
(*                                                                         *)
(* The function is one synchronous pipeline over a pandas DataFrame.  Its  *)
(* numbered steps (1 load, 2 validate, 3 normalise flight_dt, 4 blanks,   *)
(* 5-6 classify and parse date-bearing values, 7 time-only values,        *)
(* 8 merge, 9 reduce, 10 project) are the actions of the model; the local *)
(* variables of the function are the state.                               *)
(*                                                                         *)
(* Text fields are modelled by their lexical structure:                    *)
(*   - a lastupdt field is a record: a literal word ("", "NA", "abc"), a   *)
(*     clock  h:m[:s][ AM|PM]  or a stamp  2019-mon-day h:m:s ; pad says   *)
(*     whether the field carries surrounding whitespace;                   *)
(*   - a flight_dt field is a date 2019-mon-day or a non-date word;        *)
(*   - an instant is the number of seconds since 2019-01-01T00:00:00,      *)
(*     NaT is pandas' absent timestamp.                                    *)
(* Every stamp of the model has the one layout YYYY-MM-DD HH:MM:SS, so     *)
(* pd.to_datetime parses each value on its own.  Every row of the model    *)
(* carries all required columns, so the column check of lines 66-69        *)
(* passes; flightstatus stands for the columns the function only copies.   *)
(***************************************************************************)
EXTENDS Integers, Sequences, FiniteSets, TLC

VARIABLES
    input,           \* the data rows of the CSV file, in file order
    on_missing,      \* the policy argument
    pc,              \* the step of most_recent_flights_csv about to run
    df,              \* the DataFrame: rows in order, each with its index label idx
    has_date,        \* boolean Series over df's index (line 94 / 121)
    no_date,         \* boolean Series over df's index (line 95 / 122)
    last_with_date,  \* datetime Series (line 98 / 123)
    last_from_time,  \* datetime Series (line 103)
    latest,          \* the returned frame, once computed
    err,             \* the exception raised, "" while none
    bad_vals         \* the values the time-only ValueError lists

vars == <<input, on_missing, pc, df, has_date, no_date, last_with_date,
          last_from_time, latest, err, bad_vals>>

\* ------------------------------------------------------------------ bounds

\* Longest input batch of the general specification.
MaxRows == 3
\* Longest input batch of the error-report specification.
MaxErrRows == 6
\* Longest input batch of the header specification.
MaxHdrRows == 3

\* ------------------------------------------------------- program constants

\* pandas' NaT: the absent timestamp of a datetime64 Series.
NaT == -1
\* bad_vals = ....unique()[:5]
MaxBadVals == 5
SecsPerDay == 86400
SecsPerHour == 3600
SecsPerMin == 60
\* The name of the key column, which a repeated header row carries as its key.
HeaderName == "flightkey"

Policies == {"drop", "midnight", "error"}

\* --------------------------------------------------------- lexical values

Lit(w)  == [kind |-> "lit", pad |-> FALSE, txt |-> w, mon |-> 0, day |-> 0,
            h |-> 0, m |-> 0, s |-> 0, hasS |-> FALSE, mer |-> ""]
Clock(hh, mm, ss, withS, mer) ==
           [kind |-> "clock", pad |-> FALSE, txt |-> "", mon |-> 0, day |-> 0,
            h |-> hh, m |-> mm, s |-> ss, hasS |-> withS, mer |-> mer]
Stamp(mo, dd, hh, mm, ss) ==
           [kind |-> "stamp", pad |-> FALSE, txt |-> "", mon |-> mo, day |-> dd,
            h |-> hh, m |-> mm, s |-> ss, hasS |-> TRUE, mer |-> ""]
Padded(v) == [v EXCEPT !.pad = TRUE]

\* str.strip() on a lastupdt field.
StripUpd(v) == [v EXCEPT !.pad = FALSE]

\* str.strip() / str.lower() on the flightkey strings of the model.
StripKey(k) == CASE k = " FlightKey " -> "FlightKey"
                 [] k = "  "          -> ""
                 [] OTHER             -> k
LowerKey(k) == CASE k = "FlightKey" -> "flightkey"
                 [] k = "K1"        -> "k1"
                 [] k = "K2"        -> "k2"
                 [] OTHER           -> k

\* The order sort_values gives the flightkey strings (ascending).
KeyOrd(k) == CASE k = "K1" -> 1
               [] k = "K2" -> 2
               [] OTHER    -> 3

\* Calendar of 2019.
DaysIn(mo) == CASE mo = 2 -> 28
                [] mo \in {4, 6, 9, 11} -> 30
                [] OTHER -> 31
ValidDate(mo, dd) == mo \in 1..12 /\ dd \in 1..DaysIn(mo)
RECURSIVE DaysBefore(_)
DaysBefore(mo) == IF mo <= 1 THEN 0 ELSE DaysBefore(mo - 1) + DaysIn(mo - 1)
\* Midnight of 2019-mo-dd as an instant.
DateInstant(mo, dd) == (DaysBefore(mo) + dd - 1) * SecsPerDay
TimeOfDay(hh, mm, ss) == hh * SecsPerHour + mm * SecsPerMin + ss

\* The isin([...]) list of lines 76 and 90, on a stripped field.
IsBlankLike(v) == v.kind = "lit" /\ v.txt \in {"", "NA", "N/A", "null", "None"}

\* _DATE_RE.search: the field holds a date pattern.
HasDatePattern(v) == v.kind = "stamp"

\* datetime.strptime(s, fmt).time() for the four formats of _parse_time_flex,
\* as seconds of the day; NaT when the format does not match.
StrpTime24S(v) == IF v.kind = "clock" /\ v.hasS /\ v.mer = ""
                     /\ v.h \in 0..23 /\ v.m \in 0..59 /\ v.s \in 0..59
                  THEN TimeOfDay(v.h, v.m, v.s) ELSE NaT
StrpTime24(v)  == IF v.kind = "clock" /\ ~v.hasS /\ v.mer = ""
                     /\ v.h \in 0..23 /\ v.m \in 0..59
                  THEN TimeOfDay(v.h, v.m, 0) ELSE NaT
Hour12(hh, mer) == (hh % 12) + (IF mer = "PM" THEN 12 ELSE 0)
StrpTime12S(v) == IF v.kind = "clock" /\ v.hasS /\ v.mer \in {"AM", "PM"}
                     /\ v.h \in 1..12 /\ v.m \in 0..59 /\ v.s \in 0..59
                  THEN TimeOfDay(Hour12(v.h, v.mer), v.m, v.s) ELSE NaT
StrpTime12(v)  == IF v.kind = "clock" /\ ~v.hasS /\ v.mer \in {"AM", "PM"}
                     /\ v.h \in 1..12 /\ v.m \in 0..59
                  THEN TimeOfDay(Hour12(v.h, v.mer), v.m, 0) ELSE NaT

\* _parse_time_flex: the first format that matches wins; NaT stands for None.
ParseTimeFlex(v) ==
    IF v.kind = "lit" /\ v.txt = "" THEN NaT
    ELSE IF StrpTime24S(v) # NaT THEN StrpTime24S(v)
    ELSE IF StrpTime24(v) # NaT THEN StrpTime24(v)
    ELSE IF StrpTime12S(v) # NaT THEN StrpTime12S(v)
    ELSE StrpTime12(v)

\* pd.to_datetime(..., errors="coerce") on one date-bearing field.
ToDatetimeCoerce(v) ==
    IF v.kind = "stamp" /\ ValidDate(v.mon, v.day)
       /\ v.h \in 0..23 /\ v.m \in 0..59 /\ v.s \in 0..59
    THEN DateInstant(v.mon, v.day) + TimeOfDay(v.h, v.m, v.s)
    ELSE NaT

\* ------------------------------------------------------ sequence helpers

Range(f) == {f[x] : x \in DOMAIN f}
Index(d) == {d[i].idx : i \in 1..Len(d)}
RowAt(d, x) == d[CHOOSE i \in 1..Len(d) : d[i].idx = x]
RECURSIVE FilterSeq(_, _)
\* The rows of d whose index label is in keep, in order.
FilterSeq(d, keep) ==
    IF d = <<>> THEN <<>>
    ELSE IF Head(d).idx \in keep THEN <<Head(d)>> \o FilterSeq(Tail(d), keep)
    ELSE FilterSeq(Tail(d), keep)

\* ---------------------------------------------------- step 1: load (49-63)

\* pd.read_csv: one DataFrame row per data row, labelled by its position.
ReadCsv(rows) ==
    [i \in 1..Len(rows) |->
        [idx |-> i, flightkey |-> rows[i].flightkey, flight_dt |-> rows[i].flight_dt,
         lastupdt |-> rows[i].lastupdt, flightstatus |-> rows[i].flightstatus,
         lastupdt_parsed |-> NaT]]

\* Mutant of DropHeaderRows: the key is compared without lower().
DropHeaderRowsCaseSensitive(d) ==
    FilterSeq(d, {d[i].idx : i \in {j \in 1..Len(d) :
                     /\ StripKey(d[j].flightkey) # ""
                     /\ StripKey(d[j].flightkey) # HeaderName}})

\* Lines 61-63: keep the rows whose trimmed key is neither empty nor, in lower
\* case, the column's own name.  The labels of the kept rows do not change.
DropHeaderRows(d) ==
    FilterSeq(d, {d[i].idx : i \in {j \in 1..Len(d) :
                     /\ StripKey(d[j].flightkey) # ""
                     /\ LowerKey(StripKey(d[j].flightkey)) # HeaderName}})

\* ------------------------------------------- step 3: normalise flight_dt (72)

\* pd.to_datetime(df["flight_dt"], errors="raise") succeeds.
FlightDtOk(d) ==
    \A i \in 1..Len(d) : /\ d[i].flight_dt.isdate
                         /\ ValidDate(d[i].flight_dt.mon, d[i].flight_dt.day)

\* .dt.normalize(): each flight_dt becomes the instant of its midnight.
NormalizeFlightDt(d) ==
    [i \in 1..Len(d) |->
        [d[i] EXCEPT !.flight_dt = DateInstant(d[i].flight_dt.mon, d[i].flight_dt.day)]]

\* ------------------------------------------------ step 4: blanks (74-90)

\* Line 75.
StripLastupdt(d) ==
    [i \in 1..Len(d) |-> [d[i] EXCEPT !.lastupdt = StripUpd(d[i].lastupdt)]]

\* Line 76: the labels where blank_like is True.
BlankLike(d) == {d[i].idx : i \in {j \in 1..Len(d) : IsBlankLike(d[j].lastupdt)}}

\* Mutant of BlankError: the error branch never raises.
BlankErrorNever(d, policy) == FALSE

\* Line 86.
BlankError(d, policy) == policy = "error" /\ BlankLike(d) # {}

\* pd.NA in the lastupdt column.
NAValue == [Lit("") EXCEPT !.kind = "na"]

\* Line 90: what is still blank-like becomes pd.NA.
MarkNA(d) ==
    [i \in 1..Len(d) |->
        IF IsBlankLike(d[i].lastupdt) THEN [d[i] EXCEPT !.lastupdt = NAValue] ELSE d[i]]

\* Mutant of ApplyBlankPolicy: the drop branch keeps the blank rows.
ApplyBlankPolicyNoDrop(d, policy) ==
    MarkNA(IF policy = "midnight"
           THEN [i \in 1..Len(d) |->
                   IF IsBlankLike(d[i].lastupdt)
                   THEN [d[i] EXCEPT !.lastupdt = Clock(0, 0, 0, TRUE, "")]
                   ELSE d[i]]
           ELSE d)

\* Lines 79-90 on the stripped frame.
ApplyBlankPolicy(d, policy) ==
    MarkNA(IF policy = "midnight"
           THEN [i \in 1..Len(d) |->
                   IF IsBlankLike(d[i].lastupdt)
                   THEN [d[i] EXCEPT !.lastupdt = Clock(0, 0, 0, TRUE, "")]
                   ELSE d[i]]
           ELSE IF policy = "drop"
           THEN FilterSeq(d, Index(d) \ BlankLike(d))
           ELSE d)

\* --------------------------------- steps 5-6: classify, parse dates (93-100)

\* Line 94 / 121.
HasDateMask(d) == [x \in Index(d) |-> HasDatePattern(RowAt(d, x).lastupdt)]
\* Line 95 / 122.
NoDateMask(d) ==
    [x \in Index(d) |-> ~HasDatePattern(RowAt(d, x).lastupdt)
                        /\ RowAt(d, x).lastupdt.kind # "na"]
\* Mutant of LastWithDate: a date-bearing value that fails to parse falls back
\* to the row's flight date at midnight.
LastWithDateOrFlightDt(d) ==
    [x \in Index(d) |->
        IF HasDatePattern(RowAt(d, x).lastupdt)
        THEN IF ToDatetimeCoerce(RowAt(d, x).lastupdt) = NaT
             THEN RowAt(d, x).flight_dt
             ELSE ToDatetimeCoerce(RowAt(d, x).lastupdt)
        ELSE NaT]

\* Lines 98-100 / 123-125.
LastWithDate(d) ==
    [x \in Index(d) |-> IF HasDatePattern(RowAt(d, x).lastupdt)
                        THEN ToDatetimeCoerce(RowAt(d, x).lastupdt) ELSE NaT]

\* mask.any()
AnyTrue(mask) == \E x \in DOMAIN mask : mask[x]

\* ------------------------------------------ step 7: time-only rows (102-130)

\* Line 105 / 126: df.loc[no_date, "lastupdt"].map(_parse_time_flex)
Times(d, nd) ==
    [x \in {y \in Index(d) : nd[y]} |-> ParseTimeFlex(RowAt(d, x).lastupdt)]

\* Line 108: the labels where times.isna().
BadMask(times) == {x \in DOMAIN times : times[x] = NaT}

RECURSIVE Unique(_)
\* Series.unique(): the distinct values in order of first appearance.
Unique(vals) ==
    IF vals = <<>> THEN <<>>
    ELSE LET front == Unique(SubSeq(vals, 1, Len(vals) - 1))
             last  == vals[Len(vals)]
         IN IF last \in Range(front) THEN front ELSE Append(front, last)

\* Mutant of BadValues: the list is not cut to five.
BadValuesUncut(d, bad) ==
    LET rows == FilterSeq(d, bad)
    IN Unique([i \in 1..Len(rows) |-> rows[i].lastupdt])

\* Line 110: df.loc[no_date].loc[bad_mask, "lastupdt"].unique()[:5]
BadValues(d, bad) ==
    LET rows == FilterSeq(d, bad)
        u    == Unique([i \in 1..Len(rows) |-> rows[i].lastupdt])
    IN SubSeq(u, 1, IF Len(u) < MaxBadVals THEN Len(u) ELSE MaxBadVals)

\* check_bool_indexer: obj.loc[mask] needs mask to carry every label of obj.
Alignable(mask, labels) == labels \subseteq DOMAIN mask

\* Mutant of MidnightFill: the unparseable times are left as they are.
MidnightFillSkipped(times, bad) == times

\* Line 114: times.loc[bad_mask] = time(0, 0, 0).
MidnightFill(times, bad) ==
    [x \in DOMAIN times |-> IF x \in bad THEN TimeOfDay(0, 0, 0) ELSE times[x]]

\* Mutant of FromTime: the time is attached to the date of the run, not to the
\* row's flight date.
FromTimeOnRunDate(d, times, x) == DateInstant(11, 5) + times[x]

\* Line 130, one label: df.loc[no_date, "flight_dt"] + td.
FromTime(d, times, x) == RowAt(d, x).flight_dt + times[x]

\* Lines 103-130.  The result holds every local the step assigns.
TimeOnlyStep(d, hd, nd, lwd, policy) ==
    LET lft0  == [x \in Index(d) |-> NaT]
        same  == [df |-> d, has_date |-> hd, no_date |-> nd, last_with_date |-> lwd,
                  last_from_time |-> lft0, err |-> "", bad_vals |-> <<>>]
    IN IF ~AnyTrue(nd) THEN same
       ELSE
       LET times == Times(d, nd)
           bad   == BadMask(times)
           bv    == IF bad = {} THEN <<>> ELSE BadValues(d, bad)
       IN IF bad # {} /\ policy = "error"
          THEN [same EXCEPT !.err = "ValueError", !.bad_vals = bv]
          ELSE
          LET dropped == bad # {} /\ policy # "midnight"
              d2   == IF dropped THEN FilterSeq(d, Index(d) \ bad) ELSE d
              hd2  == IF dropped THEN HasDateMask(d2) ELSE hd
              nd2  == IF dropped THEN NoDateMask(d2) ELSE nd
              lwd2 == IF dropped THEN LastWithDate(d2) ELSE lwd
              t2   == IF dropped THEN Times(d2, nd2)
                      ELSE IF bad # {} THEN MidnightFill(times, bad)
                      ELSE times
              now  == [df |-> d2, has_date |-> hd2, no_date |-> nd2,
                       last_with_date |-> lwd2, last_from_time |-> lft0,
                       err |-> "", bad_vals |-> bv]
          IN IF ~AnyTrue(nd2) THEN now
             ELSE IF ~Alignable(nd2, DOMAIN lft0)
             THEN [now EXCEPT !.err = "IndexingError"]
             ELSE [now EXCEPT !.last_from_time =
                      [x \in DOMAIN lft0 |->
                          IF nd2[x] THEN FromTime(d2, t2, x) ELSE NaT]]

\* ----------------------------------------------------- step 8: merge (132-135)

\* last_from_time.loc[no_date] of line 135 can be taken.
MergeOk(nd, lft) == Alignable(nd, DOMAIN lft)

\* Lines 133-135.
Merge(d, nd, lwd, lft) ==
    [i \in 1..Len(d) |->
        [d[i] EXCEPT !.lastupdt_parsed =
            IF nd[d[i].idx] THEN lft[d[i].idx] ELSE lwd[d[i].idx]]]

\* -------------------------------------------- steps 9-10: reduce, project

\* Mutant of ParsedBefore: the timestamps sorted ascending.
ParsedBeforeAscending(p, q) == p # NaT /\ (q = NaT \/ p < q)

\* Timestamp order of sort_values(ascending=False): p goes before q.  NaT goes last.
ParsedBefore(p, q) == p # NaT /\ (q = NaT \/ p > q)

\* Mutant of RowBefore: rows of equal key and timestamp count as out of order,
\* so the sort is not stable.
RowBeforeOrTied(a, b) ==
    \/ KeyOrd(a.flightkey) < KeyOrd(b.flightkey)
    \/ /\ a.flightkey = b.flightkey
       /\ \/ a.lastupdt_parsed = b.lastupdt_parsed
          \/ a.lastupdt_parsed # NaT
             /\ (b.lastupdt_parsed = NaT \/ a.lastupdt_parsed > b.lastupdt_parsed)

\* Row a goes strictly before row b under ["flightkey", "lastupdt_parsed"],
\* ascending=[True, False].
RowBefore(a, b) ==
    \/ KeyOrd(a.flightkey) < KeyOrd(b.flightkey)
    \/ /\ a.flightkey = b.flightkey
       /\ ParsedBefore(a.lastupdt_parsed, b.lastupdt_parsed)

RECURSIVE InsertRow(_, _)
\* x placed before the first row it goes strictly before: rows that compare
\* equal keep their order (the multi-column sort is a stable lexsort).
InsertRow(x, sorted) ==
    IF sorted = <<>> THEN <<x>>
    ELSE IF RowBefore(x, Head(sorted)) THEN <<x>> \o sorted
    ELSE <<Head(sorted)>> \o InsertRow(x, Tail(sorted))

RECURSIVE SortValues(_)
\* Line 138.
SortValues(d) ==
    IF d = <<>> THEN <<>>
    ELSE InsertRow(d[Len(d)], SortValues(SubSeq(d, 1, Len(d) - 1)))

\* Line 139: drop_duplicates(subset=["flightkey"], keep="first").
DropDuplicates(d) ==
    FilterSeq(d, {d[i].idx : i \in {j \in 1..Len(d) :
                     \A k \in 1..(j - 1) : d[k].flightkey # d[j].flightkey}})

\* Lines 142-145: the returned columns; reset_index drops the labels.
Project(d) ==
    [i \in 1..Len(d) |->
        [flightkey |-> d[i].flightkey, flight_dt |-> d[i].flight_dt,
         flightstatus |-> d[i].flightstatus, lastupdt |-> d[i].lastupdt_parsed]]

\* Lines 138-146.
Reduce(d) == Project(DropDuplicates(SortValues(d)))

\* ------------------------------------------------- the function as a whole

\* most_recent_flights_csv on the data rows `rows` under `policy`: the exception
\* it raises ("" when it returns), the frame it returns and the local bad_vals
\* (the values its time-only ValueError lists).
Run(rows, policy) ==
    LET fail(e, bv) == [err |-> e, latest |-> <<>>, bad_vals |-> bv]
        d1 == DropHeaderRows(ReadCsv(rows))
    IN IF ~FlightDtOk(d1) THEN fail("DateParseError", <<>>)
       ELSE
       LET d3 == StripLastupdt(NormalizeFlightDt(d1))
       IN IF BlankError(d3, policy) THEN fail("ValueError", <<>>)
          ELSE
          LET d4 == ApplyBlankPolicy(d3, policy)
              t  == TimeOnlyStep(d4, HasDateMask(d4), NoDateMask(d4),
                                 LastWithDate(d4), policy)
          IN IF t.err # "" THEN fail(t.err, t.bad_vals)
             ELSE IF ~MergeOk(t.no_date, t.last_from_time)
             THEN fail("IndexingError", t.bad_vals)
             ELSE [err |-> "", bad_vals |-> t.bad_vals,
                   latest |-> Reduce(Merge(t.df, t.no_date, t.last_with_date,
                                           t.last_from_time))]

\* ------------------------------------------------------------------ inputs

FlightDate(mo, dd) == [isdate |-> TRUE, mon |-> mo, day |-> dd]
NotADate == [isdate |-> FALSE, mon |-> 0, day |-> 0]
RowOf(k, fd, u) == [flightkey |-> k, flight_dt |-> fd, lastupdt |-> u]

\* The rows of the general specification: both keys, two flight dates, every
\* class of lastupdt (blank-like, clock in each format, unparseable clock and
\* word, stamp that parses, stamp that does not), with equal instants reached
\* from different fields.
RowTypes ==
    { RowOf("K1", FlightDate(1, 3), Clock(19, 30, 0, TRUE, "")),
      RowOf("K1", FlightDate(1, 4), Padded(Clock(7, 30, 0, FALSE, "PM"))),
      RowOf("K1", FlightDate(1, 3), Clock(12, 0, 0, TRUE, "AM")),
      RowOf("K1", FlightDate(1, 3), Lit("")),
      RowOf("K2", FlightDate(1, 3), Padded(Lit("NA"))),
      RowOf("K1", FlightDate(1, 3), Clock(25, 0, 0, FALSE, "")),
      RowOf("K2", FlightDate(1, 3), Lit("na")),
      RowOf("K1", FlightDate(1, 3), Stamp(1, 3, 19, 30, 0)),
      RowOf("K2", FlightDate(1, 3), Stamp(1, 4, 8, 0, 0)),
      RowOf("K1", FlightDate(1, 3), Stamp(13, 3, 10, 0, 0)),
      RowOf("K2", FlightDate(1, 4), Clock(19, 30, 0, FALSE, "")),
      RowOf("flightkey", NotADate, Lit("lastupdt")) }

\* The unparseable time-only fields of the error-report specification, in the
\* order in which a batch first uses them.
JunkValues ==
    << Lit("abc"), Lit("na"), Clock(25, 0, 0, FALSE, ""),
       Clock(13, 0, 0, TRUE, "PM"), Clock(7, 60, 0, FALSE, ""), Lit("TBD") >>

ErrRowTypes ==
    { RowOf("K1", FlightDate(1, 3), JunkValues[j]) : j \in 1..Len(JunkValues) }
    \cup { RowOf("K1", FlightDate(1, 3), Padded(Lit("abc"))),
           RowOf("K1", FlightDate(1, 3), Clock(19, 30, 0, FALSE, "")),
           RowOf("K2", FlightDate(1, 3), Lit("N/A")) }

\* Junk value j > 1 may follow only a batch that already uses junk value j - 1
\* (the values are interchangeable, so every batch is one of these up to
\* renaming).
JunkAllowed(rows, r) ==
    \A j \in 2..Len(JunkValues) :
        r.lastupdt = JunkValues[j]
            => \E k \in 1..Len(rows) : rows[k].lastupdt = JunkValues[j - 1]

RECURSIVE ErrBatches(_)
\* The batches of at most n rows over ErrRowTypes with the junk values in order.
ErrBatches(n) ==
    IF n = 0 THEN {<<>>}
    ELSE LET shorter == ErrBatches(n - 1)
         IN shorter \cup
            { Append(b, [flightkey |-> r.flightkey, flight_dt |-> r.flight_dt,
                         lastupdt |-> r.lastupdt, flightstatus |-> Len(b) + 1])
              : <<b, r>> \in { p \in shorter \X ErrRowTypes :
                                  Len(p[1]) = n - 1 /\ JunkAllowed(p[1], p[2]) } }

\* The rows of the header specification: repeated header rows as written and
\* with other case and padding, a row with a blank key, data rows of each
\* class and a data row whose flight_dt is no date.
HdrRowTypes ==
    { RowOf("flightkey", NotADate, Lit("lastupdt")),
      RowOf(" FlightKey ", NotADate, Lit("")),
      RowOf("  ", FlightDate(1, 3), Clock(19, 30, 0, TRUE, "")),
      RowOf("K1", FlightDate(1, 3), Clock(19, 30, 0, TRUE, "")),
      RowOf("K1", FlightDate(1, 3), Lit("abc")),
      RowOf("K1", FlightDate(1, 4), Lit("")),
      RowOf("K2", FlightDate(1, 3), Stamp(1, 4, 8, 0, 0)),
      RowOf("K2", FlightDate(2, 30), Clock(19, 30, 0, TRUE, "")) }

\* The batches of at most n rows over `types`; the flightstatus of a row is
\* distinct for every row and tells the rows of a batch apart.
Batches(types, n) ==
    UNION { { [i \in 1..len |->
                 [flightkey |-> b[i].flightkey, flight_dt |-> b[i].flight_dt,
                  lastupdt |-> b[i].lastupdt, flightstatus |-> i]]
              : b \in [1..len -> types] } : len \in 0..n }

\* ----------------------------------------------------------------- actions

InitLocals ==
    /\ pc = "load"
    /\ df = <<>>
    /\ has_date = <<>>
    /\ no_date = <<>>
    /\ last_with_date = <<>>
    /\ last_from_time = <<>>
    /\ latest = <<>>
    /\ err = ""
    /\ bad_vals = <<>>

Init ==
    /\ input \in Batches(RowTypes, MaxRows)
    /\ on_missing \in Policies
    /\ InitLocals

InitErr ==
    /\ input \in ErrBatches(MaxErrRows)
    /\ on_missing = "error"
    /\ InitLocals

InitHdr ==
    /\ input \in Batches(HdrRowTypes, MaxHdrRows)
    /\ on_missing \in Policies
    /\ InitLocals

\* Lines 49-63.
Load ==
    /\ pc = "load"
    /\ df' = DropHeaderRows(ReadCsv(input))
    /\ pc' = "normalize"
    /\ UNCHANGED <<input, on_missing, has_date, no_date, last_with_date,
                   last_from_time, latest, err, bad_vals>>

\* Line 72.
Normalize ==
    /\ pc = "normalize"
    /\ IF FlightDtOk(df)
       THEN df' = NormalizeFlightDt(df) /\ pc' = "blanks" /\ err' = err
       ELSE df' = df /\ pc' = "failed" /\ err' = "DateParseError"
    /\ UNCHANGED <<input, on_missing, has_date, no_date, last_with_date,
                   last_from_time, latest, bad_vals>>

\* Lines 75-90.
Blanks ==
    /\ pc = "blanks"
    /\ IF BlankError(StripLastupdt(df), on_missing)
       THEN df' = StripLastupdt(df) /\ pc' = "failed" /\ err' = "ValueError"
       ELSE /\ df' = ApplyBlankPolicy(StripLastupdt(df), on_missing)
            /\ pc' = "classify"
            /\ err' = err
    /\ UNCHANGED <<input, on_missing, has_date, no_date, last_with_date,
                   last_from_time, latest, bad_vals>>

\* Lines 94-100.
Classify ==
    /\ pc = "classify"
    /\ has_date' = HasDateMask(df)
    /\ no_date' = NoDateMask(df)
    /\ last_with_date' = LastWithDate(df)
    /\ pc' = "timeonly"
    /\ UNCHANGED <<input, on_missing, df, last_from_time, latest, err, bad_vals>>

\* Lines 103-130.
TimeOnly ==
    /\ pc = "timeonly"
    /\ LET t == TimeOnlyStep(df, has_date, no_date, last_with_date, on_missing)
       IN /\ df' = t.df
          /\ has_date' = t.has_date
          /\ no_date' = t.no_date
          /\ last_with_date' = t.last_with_date
          /\ last_from_time' = t.last_from_time
          /\ err' = t.err
          /\ bad_vals' = t.bad_vals
          /\ pc' = IF t.err = "" THEN "merge" ELSE "failed"
    /\ UNCHANGED <<input, on_missing, latest>>

\* Lines 133-135.
MergeParsed ==
    /\ pc = "merge"
    /\ IF MergeOk(no_date, last_from_time)
       THEN /\ df' = Merge(df, no_date, last_with_date, last_from_time)
            /\ pc' = "reduce"
            /\ err' = err
       ELSE df' = df /\ pc' = "failed" /\ err' = "IndexingError"
    /\ UNCHANGED <<input, on_missing, has_date, no_date, last_with_date,
                   last_from_time, latest, bad_vals>>

\* Lines 138-146.
ReduceLatest ==
    /\ pc = "reduce"
    /\ latest' = Reduce(df)
    /\ pc' = "done"
    /\ UNCHANGED <<input, on_missing, df, has_date, no_date, last_with_date,
                   last_from_time, err, bad_vals>>

Next ==
    \/ Load
    \/ Normalize
    \/ Blanks
    \/ Classify
    \/ TimeOnly
    \/ MergeParsed
    \/ ReduceLatest

Spec == Init /\ [][Next]_vars
SpecErr == InitErr /\ [][Next]_vars
SpecHdr == InitHdr /\ [][Next]_vars

\* ------------------------------------------------------- claim vocabulary

\* The labels of the rows the loader keeps (a row's label, its position in the
\* file and its flightstatus are the same number).
Loaded == Index(DropHeaderRows(ReadCsv(input)))
Trimmed(i) == StripUpd(input[i].lastupdt)
BlankRow(i) == IsBlankLike(Trimmed(i))
DateRow(i) == ~BlankRow(i) /\ HasDatePattern(Trimmed(i))
TimeRow(i) == ~BlankRow(i) /\ ~HasDatePattern(Trimmed(i))
TimeOnlyGood(i) == TimeRow(i) /\ ParseTimeFlex(Trimmed(i)) # NaT
TimeOnlyBad(i) == TimeRow(i) /\ ParseTimeFlex(Trimmed(i)) = NaT
StampBad(i) == DateRow(i) /\ ToDatetimeCoerce(Trimmed(i)) = NaT
\* The rows the missing-data policy removes.
Removed(i) == on_missing = "drop" /\ (BlankRow(i) \/ TimeOnlyBad(i))
Survivors == {i \in Loaded : ~Removed(i)}
SurvivorsOf(k) == {i \in Survivors : input[i].flightkey = k}
\* The resolved instant of the row labelled i, once the merge has run.
Resolved(i) == RowAt(df, i).lastupdt_parsed
Merged == pc \in {"reduce", "done"}
Returned == pc = "done"
Emitted == {latest[j].flightstatus : j \in 1..Len(latest)}
FlightDay(i) == DateInstant(input[i].flight_dt.mon, input[i].flight_dt.day)

\* ------------------------------------------------------------------- C1

\* C1: whenever the function returns, the output has exactly one row for each
\* flight key with a surviving row and none for any other key; the row of a key
\* is a surviving input row of that key, carries that row's resolved instant,
\* and no surviving row of the key has a later resolved instant (a row whose
\* instant is absent has none to compare).
C1_OneLatestPerKey ==
    Returned =>
        /\ Index(df) = Survivors
        /\ \A i \in Survivors :
              Cardinality({j \in 1..Len(latest) :
                              latest[j].flightkey = input[i].flightkey}) = 1
        /\ \A j \in 1..Len(latest) :
              LET i == latest[j].flightstatus
              IN /\ i \in Survivors
                 /\ input[i].flightkey = latest[j].flightkey
                 /\ latest[j].lastupdt = Resolved(i)
                 /\ \A o \in SurvivorsOf(latest[j].flightkey) :
                       Resolved(o) # NaT =>
                           Resolved(i) # NaT /\ Resolved(i) >= Resolved(o)

\* Two keys in the output, one of them chosen among rows of different instants
\* with the later row first in the file.
C1_Witness ==
    /\ Returned
    /\ Len(latest) = 2
    /\ \E i, o \in Survivors :
          /\ i < o
          /\ input[i].flightkey = input[o].flightkey
          /\ Resolved(o) # NaT
          /\ Resolved(i) > Resolved(o)
          /\ i \in Emitted

\* ------------------------------------------------------------------- C2

\* The surviving rows of key k that carry the key's greatest resolved instant.
MaximalOf(k) ==
    {i \in SurvivorsOf(k) :
        /\ Resolved(i) # NaT
        /\ \A o \in SurvivorsOf(k) : Resolved(o) # NaT => Resolved(i) >= Resolved(o)}

\* C2: when several surviving rows of a key share the key's greatest resolved
\* instant, the output row of the key is the first of them in input order.
C2_TieFirstInInput ==
    Returned =>
        \A j \in 1..Len(latest) :
            MaximalOf(latest[j].flightkey) # {} =>
                \A o \in MaximalOf(latest[j].flightkey) : latest[j].flightstatus <= o

\* Three rows of one key tie at the greatest instant and the first is emitted.
C2_Witness ==
    /\ Returned
    /\ \E j \in 1..Len(latest) :
          /\ Cardinality(MaximalOf(latest[j].flightkey)) >= 3
          /\ \E a, b \in MaximalOf(latest[j].flightkey) :
                input[a].lastupdt # input[b].lastupdt

\* ------------------------------------------------------------------- C3

\* C3: a row whose update field is not blank-like, holds no date pattern and
\* matches one of the four time formats resolves, under every policy, to its
\* own flight date at the parsed time of day.
C3_TimeOnlyOnFlightDate ==
    Merged =>
        \A i \in Loaded :
            TimeOnlyGood(i) =>
                /\ i \in Index(df)
                /\ Resolved(i) # NaT
                /\ Resolved(i) \div SecsPerDay = FlightDay(i) \div SecsPerDay
                /\ Resolved(i) % SecsPerDay = ParseTimeFlex(Trimmed(i))

\* Two time-only rows with different flight dates; the emitted one is written
\* in a 12-hour format.
C3_Witness ==
    /\ Returned
    /\ \E i, o \in Loaded :
          /\ TimeOnlyGood(i) /\ TimeOnlyGood(o)
          /\ FlightDay(i) # FlightDay(o)
          /\ input[i].lastupdt.mer = "PM"
          /\ i \in Emitted

\* ------------------------------------------------------------------- C4

\* C4: under drop no row with a blank-like update field is emitted, and a key
\* all of whose rows are blank-like has no output row.
C4_DropExcludesBlank ==
    on_missing = "drop" =>
        /\ \A j \in 1..Len(latest) : ~BlankRow(latest[j].flightstatus)
        /\ \A i \in Loaded :
              (\A o \in Loaded : input[o].flightkey = input[i].flightkey => BlankRow(o))
                  => \A j \in 1..Len(latest) : latest[j].flightkey # input[i].flightkey

\* A returned run under drop with a key that is only blank-like (absent from the
\* output) and a key with a blank-like and a timed row.
C4_Witness ==
    /\ on_missing = "drop"
    /\ Returned
    /\ Len(latest) = 1
    /\ \E i, o, q \in Loaded :
          /\ BlankRow(i) /\ BlankRow(o) /\ ~BlankRow(q)
          /\ input[i].flightkey # input[o].flightkey
          /\ input[o].flightkey = input[q].flightkey

\* ------------------------------------------------------------------- C5

\* C5: under midnight a row whose update field is blank-like or an unparseable
\* time-only string is kept and resolves to its flight date at 00:00:00; no row
\* is removed, the policy raises nothing, and every loaded key is in the output.
C5_MidnightKeepsRows ==
    on_missing = "midnight" =>
        /\ err \in {"", "DateParseError"}
        /\ Merged =>
              /\ Index(df) = Loaded
              /\ \A i \in Loaded :
                    (BlankRow(i) \/ TimeOnlyBad(i)) => Resolved(i) = FlightDay(i)
        /\ Returned =>
              \A i \in Loaded :
                  \E j \in 1..Len(latest) : latest[j].flightkey = input[i].flightkey

\* A returned run under midnight with a blank-like row and an unparseable
\* time-only row, one of them emitted.
C5_Witness ==
    /\ on_missing = "midnight"
    /\ Returned
    /\ \E i, o \in Loaded :
          /\ BlankRow(i) /\ TimeOnlyBad(o)
          /\ i \in Emitted
          /\ latest[CHOOSE j \in 1..Len(latest) : latest[j].flightstatus = i].lastupdt
                 = FlightDay(i)

\* ------------------------------------------------------------------- C6

Failed == pc = "failed"
\* The flight dates passed line 72: the batch is loaded.
PastLoader == pc \notin {"load", "normalize"} /\ err # "DateParseError"

\* C6, as claimed: under error the function never returns when a loaded row is
\* blank-like, an unparseable time-only string or a date-bearing string that
\* fails datetime parsing.
C6_AsClaimed ==
    (on_missing = "error" /\ Returned) =>
        \A i \in Loaded : ~(BlankRow(i) \/ TimeOnlyBad(i) \/ StampBad(i))

\* C6, amended: under error a loaded batch makes the function fail with the
\* ValueError exactly when some loaded row is blank-like or an unparseable
\* time-only string, and then nothing is returned; a date-bearing row that
\* fails datetime parsing raises nothing.
C6_ErrorOnBlankOrBadTime ==
    (on_missing = "error" /\ PastLoader) =>
        /\ (Returned \/ Failed) =>
              (err = "ValueError" <=> \E i \in Loaded : BlankRow(i) \/ TimeOnlyBad(i))
        /\ (\E i \in Loaded : BlankRow(i) \/ TimeOnlyBad(i)) => ~Returned /\ latest = <<>>
        /\ err \in {"", "ValueError"}

\* Under error: a batch failed for a blank-like row that stands after a timed row.
C6_Witness ==
    /\ on_missing = "error"
    /\ Failed
    /\ err = "ValueError"
    /\ \E i, o \in Loaded : i < o /\ TimeOnlyGood(i) /\ BlankRow(o)

\* ------------------------------------------------------------------- C7

\* C7, as claimed: a date-bearing row that fails datetime parsing never reaches
\* the reducer with an absent resolved instant.
C7_AsClaimed ==
    Merged => \A i \in Index(df) : StampBad(i) => Resolved(i) # NaT

\* C7, amended: the policy does not apply to a date-bearing row that fails
\* datetime parsing.  Under every policy the row is kept with an absent
\* resolved instant and reaches the reducer, and it is the output row of its
\* key exactly when no surviving row of the key has a resolved instant and it is
\* the first surviving row of the key.
C7_BadStampKeptAbsent ==
    /\ Merged =>
          \A i \in Loaded : StampBad(i) => i \in Index(df) /\ Resolved(i) = NaT
    /\ Returned =>
          \A i \in Loaded :
              StampBad(i) =>
                  (i \in Emitted <=>
                      \A o \in SurvivorsOf(input[i].flightkey) :
                          Resolved(o) = NaT /\ i <= o)

\* A returned run that emits a date-bearing row with an absent instant, under
\* the policy error.
C7_Witness ==
    /\ Returned
    /\ on_missing = "error"
    /\ \E i \in Loaded :
          /\ StampBad(i)
          /\ i \in Emitted
          /\ Cardinality(SurvivorsOf(input[i].flightkey)) >= 2

\* ------------------------------------------------------------------- C8

\* input without the rows whose label is in gone.
Without(gone) == FilterSeq(ReadCsv(input), (1..Len(input)) \ gone)
InputWithout(gone) ==
    [i \in 1..Len(Without(gone)) |->
        [flightkey |-> Without(gone)[i].flightkey,
         flight_dt |-> Without(gone)[i].flight_dt,
         lastupdt |-> Without(gone)[i].lastupdt,
         flightstatus |-> Without(gone)[i].flightstatus]]

\* C8: under drop a batch with unparseable time-only fields does not fail; the
\* function returns what it returns for the batch without those rows.
C8_DropBadTimeOnly ==
    (on_missing = "drop" /\ PastLoader /\ (Returned \/ Failed)
        /\ \E i \in Loaded : TimeOnlyBad(i)) =>
        /\ err = ""
        /\ latest = Run(InputWithout({i \in Loaded : TimeOnlyBad(i)}), "drop").latest

\* ------------------------------------------------------------------- C9

Distinct(q) == \A a, b \in 1..Len(q) : a # b => q[a] # q[b]

\* C9, as claimed: the error raised under error for blank-like or unparseable
\* update fields lists between 1 and 5 pairwise distinct values, each the raw
\* update field of a blank-like or unparseable loaded row.
C9_AsClaimed ==
    (on_missing = "error" /\ Failed /\ err = "ValueError") =>
        /\ Len(bad_vals) \in 1..MaxBadVals
        /\ Distinct(bad_vals)
        /\ \A a \in 1..Len(bad_vals) :
              \E i \in Loaded :
                  /\ input[i].lastupdt = bad_vals[a]
                  /\ (BlankRow(i) \/ TimeOnlyBad(i) \/ StampBad(i))

\* C9, amended: the error raised for a blank-like update field lists no value.
\* The error raised for unparseable time-only fields lists between 1 and 5
\* pairwise distinct values, each the trimmed update field of a loaded row that
\* is an unparseable time-only string: the first distinct ones in input order.
C9_BadValuesListed ==
    (on_missing = "error" /\ Failed /\ err = "ValueError") =>
        IF \E i \in Loaded : BlankRow(i)
        THEN bad_vals = <<>>
        ELSE /\ Len(bad_vals) \in 1..MaxBadVals
             /\ Distinct(bad_vals)
             /\ \A a \in 1..Len(bad_vals) :
                   \E i \in Loaded : TimeOnlyBad(i) /\ Trimmed(i) = bad_vals[a]
             /\ \A i \in Loaded :
                   (TimeOnlyBad(i) /\ Trimmed(i) \notin Range(bad_vals)) =>
                       /\ Len(bad_vals) = MaxBadVals
                       /\ \A a \in 1..Len(bad_vals) :
                             \E o \in Loaded : o < i /\ Trimmed(o) = bad_vals[a]

\* A batch with six distinct unparseable time-only fields: five are listed.
C9_Witness ==
    /\ on_missing = "error"
    /\ Failed
    /\ err = "ValueError"
    /\ Len(bad_vals) = MaxBadVals
    /\ \E i \in Loaded : TimeOnlyBad(i) /\ Trimmed(i) \notin Range(bad_vals)

\* ------------------------------------------------------------------- C10

\* A repeated header row: its key, trimmed and in lower case, is the name of the
\* key column.
IsHeaderRow(r) == LowerKey(StripKey(r.flightkey)) = HeaderName
HeaderRows == {i \in 1..Len(input) : IsHeaderRow(input[i])}

\* C10: a repeated header row is removed before flight-date validation and
\* timestamp resolution: it is no output row, it makes nothing fail, and the
\* function ends (returns or raises) as on the input without that row, under
\* every policy.
C10_HeaderRowsIgnored ==
    /\ \A j \in 1..Len(latest) : latest[j].flightstatus \notin HeaderRows
    /\ (Returned \/ Failed) =>
          \A h \in HeaderRows :
              LET r == Run(InputWithout({h}), on_missing)
              IN /\ err = r.err
                 /\ latest = r.latest
                 /\ bad_vals = r.bad_vals

\* A returned run on a batch with a header row, whose flight_dt is no date,
\* between two data rows.
C10_Witness ==
    /\ Returned
    /\ Len(latest) >= 1
    /\ \E h \in HeaderRows :
          /\ ~input[h].flight_dt.isdate
          /\ input[h].flightkey # HeaderName
          /\ \E a, b \in Loaded : a < h /\ h < b

====
